---- MODULE Spec2Model ----
(***************************************************************************)
(* Model of src/main.py, the "Mini-Selector": the catalogue loader         *)
(* (load_type_rows), the length parser (parse_length_to_meters), the       *)
(* selection scan (select_best) and the request handler (App.on_calculate).*)
(*                                                                         *)
(* Text is a sequence of one-character strings, so that strip, lower,      *)
(* replace, the substring test and float() are computed, not assumed.      *)
(* A Python float is an exact decimal [m |-> mantissa, k |-> digits after  *)
(* the point], kept normalised (no trailing zero in the mantissa), so that *)
(* record equality is numeric equality.  Binary rounding is not modelled.  *)
(***************************************************************************)
EXTENDS Integers, Sequences, FiniteSets, TLC

VARIABLES
    db,             \* the files of DB_DIR: type name -> [header, rows]
    types,          \* App.types
    selected_type,  \* App.selected_type
    length_text,    \* App.length_text
    unit,           \* App.unit
    lbl_summary,    \* App.lbl_summary's text
    lbl_detail,     \* App.lbl_detail's text
    dialog,         \* the messagebox.showerror of the last on_calculate
    calls,          \* the functions the last on_calculate invoked, in order
    length_m,       \* on_calculate's local length_m
    rows,           \* on_calculate's local rows
    result,         \* on_calculate's local result
    call,           \* function under direct call, with its arguments
    ret,            \* what that call returned
    scan            \* select_best's loop state while it runs

vars == <<db, types, selected_type, length_text, unit, lbl_summary, lbl_detail,
          dialog, calls, length_m, rows, result, call, ret, scan>>

appVars == <<db, types, selected_type, length_text, unit, lbl_summary,
             lbl_detail, dialog, calls, length_m, rows, result>>

callVars == <<call, ret, scan>>

(***************************************************************************)
(* Bounds of the model.                                                    *)
(***************************************************************************)
MaxLen == 3      \* longest generated length text
MaxRows == 3     \* most rows of a catalogue handed to select_best
MaxLines == 2    \* most lines after the header of a generated catalogue file

(***************************************************************************)
(* Python values.                                                          *)
(***************************************************************************)
None == [none |-> TRUE]

Digit == {"0", "1", "2", "3", "4", "5", "6", "7", "8", "9"}

DigitVal(c) ==
    CASE c = "0" -> 0 [] c = "1" -> 1 [] c = "2" -> 2 [] c = "3" -> 3
      [] c = "4" -> 4 [] c = "5" -> 5 [] c = "6" -> 6 [] c = "7" -> 7
      [] c = "8" -> 8 [] c = "9" -> 9

RECURSIVE Pow10(_)
Pow10(n) == IF n = 0 THEN 1 ELSE 10 * Pow10(n - 1)

\* A float of value m / 10^k, normalised.
RECURSIVE Dec(_, _)
Dec(m, k) ==
    IF m = 0 THEN [m |-> 0, k |-> 0]
    ELSE IF k > 0 /\ m % 10 = 0 THEN Dec(m \div 10, k - 1)
    ELSE [m |-> m, k |-> k]

\* a * b
Mul(a, b) == Dec(a.m * b.m, a.k + b.k)

\* a faulty variant: the conversion multiplies
Times100(a) == Dec(a.m * 100, a.k)

\* a / 100.0
Div100(a) == Dec(a.m, a.k + 2)

\* A float as three limbs <<h, mid, lo>> of value
\* (h * 10^12 + mid * 10^6 + lo) / 10^18, 0 <= mid, lo < 10^6: sums and
\* comparisons of floats of very different magnitude stay within TLC's integers.
Limbs(a) ==
    LET s == 18 - a.k
    IN  IF s >= 12 THEN <<a.m * Pow10(s - 12), 0, 0>>
        ELSE IF s >= 6 THEN
            <<a.m \div Pow10(12 - s), (a.m % Pow10(12 - s)) * Pow10(s - 6), 0>>
        ELSE
            LET q == a.m \div Pow10(6 - s)
            IN  <<q \div Pow10(6), q % Pow10(6), (a.m % Pow10(6 - s)) * Pow10(s)>>

\* a + b, in limbs
Plus(a, b) ==
    LET x == Limbs(a)
        y == Limbs(b)
        lo == x[3] + y[3]
        mid == x[2] + y[2] + (lo \div Pow10(6))
    IN  <<x[1] + y[1] + (mid \div Pow10(6)), mid % Pow10(6), lo % Pow10(6)>>

\* x >= y, on limbs
LimbsGE(x, y) ==
    \/ x[1] > y[1]
    \/ x[1] = y[1] /\ x[2] > y[2]
    \/ x[1] = y[1] /\ x[2] = y[2] /\ x[3] >= y[3]

\* a >= b and a <= b, on floats
GE(a, b) == LimbsGE(Limbs(a), Limbs(b))
LE(a, b) == GE(b, a)

Zero == Dec(0, 0)

(***************************************************************************)
(* Python str methods, on sequences of characters.                         *)
(***************************************************************************)
IsPrefix(p, s) == Len(p) <= Len(s) /\ SubSeq(s, 1, Len(p)) = p

Drop(s, n) == SubSeq(s, n + 1, Len(s))

\* s.replace(old, new), old not empty
RECURSIVE Replace(_, _, _)
Replace(s, old, new) ==
    IF s = <<>> THEN <<>>
    ELSE IF IsPrefix(old, s) THEN new \o Replace(Drop(s, Len(old)), old, new)
    ELSE <<Head(s)>> \o Replace(Tail(s), old, new)

\* s.strip(): the only whitespace of the modelled alphabet is the blank
RECURSIVE LStrip(_)
LStrip(s) == IF s # <<>> /\ Head(s) = " " THEN LStrip(Tail(s)) ELSE s

RECURSIVE RStrip(_)
RStrip(s) ==
    IF s # <<>> /\ s[Len(s)] = " " THEN RStrip(SubSeq(s, 1, Len(s) - 1)) ELSE s

Strip(s) == RStrip(LStrip(s))

\* s.lower()
UpperCase == <<"A", "B", "C", "D", "E", "F", "G", "H", "I", "J", "K", "L", "M",
               "N", "O", "P", "Q", "R", "S", "T", "U", "V", "W", "X", "Y", "Z">>
LowerCase == <<"a", "b", "c", "d", "e", "f", "g", "h", "i", "j", "k", "l", "m",
               "n", "o", "p", "q", "r", "s", "t", "u", "v", "w", "x", "y", "z">>

LowerChar(c) ==
    IF \E i \in 1..Len(UpperCase) : UpperCase[i] = c
    THEN LowerCase[CHOOSE i \in 1..Len(UpperCase) : UpperCase[i] = c]
    ELSE c

RECURSIVE Lower(_)
Lower(s) == IF s = <<>> THEN <<>> ELSE <<LowerChar(Head(s))>> \o Lower(Tail(s))

\* sub in s
RECURSIVE Contains(_, _)
Contains(s, sub) ==
    \/ IsPrefix(sub, s)
    \/ s # <<>> /\ Contains(Tail(s), sub)

(***************************************************************************)
(* float(s): an optional sign, then digits with at most one point and at   *)
(* least one digit; surrounding blanks are ignored.  The modelled alphabet *)
(* has no exponent, "inf", "nan" or "_".  Yields the float, or None for    *)
(* ValueError.                                                             *)
(***************************************************************************)
RECURSIVE Mantissa(_, _)
Mantissa(s, acc) ==
    IF s = <<>> THEN acc
    ELSE IF Head(s) = "." THEN Mantissa(Tail(s), acc)
    ELSE Mantissa(Tail(s), 10 * acc + DigitVal(Head(s)))

RECURSIVE AfterPoint(_)
AfterPoint(s) ==
    IF s = <<>> THEN 0
    ELSE IF Head(s) = "." THEN Len(s) - 1
    ELSE AfterPoint(Tail(s))

Signed(t) == t # <<>> /\ Head(t) \in {"-", "+"}

Unsigned(t) == IF Signed(t) THEN Tail(t) ELSE t

IsNumeral(body) ==
    /\ \E i \in 1..Len(body) : body[i] \in Digit
    /\ \A i \in 1..Len(body) : body[i] \in Digit \cup {"."}
    /\ Cardinality({i \in 1..Len(body) : body[i] = "."}) <= 1

Magnitude(body) == Dec(Mantissa(body, 0), AfterPoint(body))

Neg(a) == [a EXCEPT !.m = -a.m]

FloatOfStripped(t) ==
    IF ~IsNumeral(Unsigned(t)) THEN None
    ELSE IF Head(t) = "-" THEN Neg(Magnitude(Unsigned(t)))
    ELSE Magnitude(Unsigned(t))

float(s) == FloatOfStripped(Strip(s))

(***************************************************************************)
(* parse_length_to_meters                                                  *)
(***************************************************************************)
\* the float of the text, in the unit u
InUnit(val, u) ==
    IF val = None THEN None
    ELSE IF u = "m" THEN val
    ELSE IF u = "cm" THEN Div100(val)
    ELSE None

parse_length_to_meters(text, u) ==
    IF text = <<>> THEN None
    ELSE InUnit(float(Replace(Replace(text, <<" ">>, <<>>), <<",">>, <<".">>)), u)

(***************************************************************************)
(* EntryRow and select_best.                                               *)
(***************************************************************************)
EntryRow(label, innen, cetta_max, cetta_pro_meter) ==
    [label |-> label, innen |-> innen, cetta_max |-> cetta_max,
     cetta_pro_meter |-> cetta_pro_meter]

\* the tolerance 1e-12 of select_best's comparison
EPS == Dec(1, 12)

\* a faulty variant: the comparison without the tolerance, and strict
CoversStrict(r, req) ==
    /\ LimbsGE(Limbs(r.cetta_max), Limbs(req))
    /\ Limbs(r.cetta_max) # Limbs(req)

\* r.cetta_max + 1e-12 >= req
Covers(r, req) == LimbsGE(Plus(r.cetta_max, EPS), Limbs(req))

MsgOK == "OK"
MsgNoRows == "Keine Datenzeilen vorhanden."
MsgNoFit == "Bei kleinster möglicher Außen: keiner (kein Eintrag deckt den Bedarf)"

\* select_best's locals on entry
ScanEntry ==
    [pc |-> "entry", i |-> 1, chosen |-> None, chosen_required |-> Zero, out |-> None]

\* a faulty variant: a catalogue of one row is taken for an empty one
NotRowsUpToOne(rs) == Len(rs) <= 1

\* not rows
NotRows(rs) == rs = <<>>

\* a faulty variant: the loop does not break at the first row that covers its need
ForStepNoBreak(rs, len, st) ==
    IF st.i > Len(rs) THEN [st EXCEPT !.pc = "after"]
    ELSE LET r == rs[st.i]
             req == Mul(len, r.cetta_pro_meter)
         IN  IF Covers(r, req)
             THEN [st EXCEPT !.i = st.i + 1, !.chosen = r, !.chosen_required = req]
             ELSE [st EXCEPT !.i = st.i + 1]

\* One iteration of "for r in rows", or the loop's end.
ForStep(rs, len, st) ==
    IF st.i > Len(rs) THEN [st EXCEPT !.pc = "after"]
    ELSE LET r == rs[st.i]
             req == Mul(len, r.cetta_pro_meter)
         IN  IF Covers(r, req)
             THEN [st EXCEPT !.pc = "after", !.chosen = r, !.chosen_required = req]
             ELSE [st EXCEPT !.i = st.i + 1]

\* a faulty variant: the reference row of "none" is the last row
SmallestLast(rs) == rs[Len(rs)]

\* smallest = rows[0]
Smallest(rs) == rs[1]

\* One step of select_best(rs, len) from the loop state st: the emptiness test,
\* one iteration of the for loop, or the return after it.
SelectStep(rs, len, st) ==
    CASE st.pc = "entry" ->
            IF NotRows(rs)
            THEN [st EXCEPT !.pc = "return",
                            !.out = [status |-> "none", row |-> None,
                                     required_cetta |-> Zero, message |-> MsgNoRows]]
            ELSE [st EXCEPT !.pc = "for"]
      [] st.pc = "for" -> ForStep(rs, len, st)
      [] st.pc = "after" ->
            IF st.chosen # None
            THEN [st EXCEPT !.pc = "return",
                            !.out = [status |-> "ok", row |-> st.chosen,
                                     required_cetta |-> st.chosen_required,
                                     message |-> MsgOK]]
            ELSE LET smallest == Smallest(rs)
                 IN  [st EXCEPT !.pc = "return",
                                !.out = [status |-> "none", row |-> smallest,
                                         required_cetta |->
                                             Mul(len, smallest.cetta_pro_meter),
                                         message |-> MsgNoFit]]

RECURSIVE SelectRun(_, _, _)
SelectRun(rs, len, st) ==
    IF st.pc = "return" THEN st.out ELSE SelectRun(rs, len, SelectStep(rs, len, st))

select_best(rs, len) == SelectRun(rs, len, ScanEntry)

(***************************************************************************)
(* load_type_rows.  A file is [header |-> the cells of its first line,     *)
(* rows |-> the cells of each further line]; csv.DictReader takes the      *)
(* field names from the header, skips lines without cells, fills a short   *)
(* line with None and drops the cells beyond the header.                   *)
(***************************************************************************)
Aussen == <<"a", "u", "ß", "e", "n">>
AussenAscii == <<"a", "u", "s", "s", "e", "n">>
Innen == <<"i", "n", "n", "e", "n">>
CettaMax == <<"c", "e", "t", "t", "a", "_", "m", "a", "x">>
CettaProMeter ==
    <<"c", "e", "t", "t", "a", "_", "p", "r", "o", "_", "m", "e", "t", "e", "r">>

CsvExt == <<".", "c", "s", "v">>

\* norm(s)
norm(s) == Replace(Lower(Strip(s)), <<" ">>, <<>>)

Last(S) == CHOOSE i \in S : \A j \in S : j <= i
First(S) == CHOOSE i \in S : \A j \in S : i <= j

\* header_map = {norm(h): h for h in reader.fieldnames or []}, as the
\* normalised name of each field, in the fields' order
RECURSIVE header_map(_)
header_map(fieldnames) ==
    IF fieldnames = <<>> THEN <<>>
    ELSE <<norm(Head(fieldnames))>> \o header_map(Tail(fieldnames))

\* The column row[header_map[k]] reads: header_map maps a normalised name to
\* the last field of that name, and the row's dict holds, for a repeated field
\* name, its last cell.  0: k is not in header_map.
LastOr0(at) == IF at = {} THEN 0 ELSE Last(at)

Column(keys, k) == LastOr0({i \in 1..Len(keys) : keys[i] = k})

\* The names get() probes, in its order: each candidate, then the candidate
\* with "außen" replaced by "aussen".
WithAscii(c1, c2, c3) ==
    <<c1, Replace(c1, Aussen, AussenAscii),
      c2, Replace(c2, Aussen, AussenAscii),
      c3, Replace(c3, Aussen, AussenAscii)>>

Candidates(logical) ==
    WithAscii(logical, Replace(logical, <<"ß">>, <<"s", "s">>),
              Replace(logical, <<"_">>, <<>>))

\* get()'s fallback: the first key of header_map that contains the logical name
\* without its underscores.  0: none.
FirstKeyColumn(keys, at) == IF at = {} THEN 0 ELSE Column(keys, keys[First(at)])

KeysWith(keys, sub) == {i \in 1..Len(keys) : Contains(keys[i], sub)}

Fallback(keys, logical) ==
    FirstKeyColumn(keys, KeysWith(keys, Replace(logical, <<"_">>, <<>>)))

FirstHit(keys, cs) ==
    IF \A n \in 1..Len(cs) : Column(keys, cs[n]) = 0 THEN 0
    ELSE Column(keys, cs[First({n \in 1..Len(cs) : Column(keys, cs[n]) # 0})])

FirstHitOr(col, keys, logical) == IF col # 0 THEN col ELSE Fallback(keys, logical)

\* The column get(row, logical) returns the cell of, keys being header_map;
\* 0: it raises KeyError.
Resolve(keys, logical) == FirstHitOr(FirstHit(keys, Candidates(logical)), keys, logical)

\* list(header_map.values()), as a set
HeaderValues(fieldnames, keys) ==
    {fieldnames[Column(keys, keys[i])] : i \in 1..Len(keys)}

KeyError(fieldnames, keys, logical) ==
    [type |-> "KeyError", logical |-> logical,
     present |-> HeaderValues(fieldnames, keys)]

ValueError(logical, text) ==
    [type |-> "ValueError", logical |-> logical, text |-> text]

\* str(row[...]): a line shorter than the header holds None there
CellStr(row, col) == IF col <= Len(row) THEN row[col] ELSE <<"N", "o", "n", "e">>

TextAt(fieldnames, keys, row, logical, col) ==
    IF col = 0 THEN [exc |-> KeyError(fieldnames, keys, logical)]
    ELSE [exc |-> None, val |-> Strip(CellStr(row, col))]

\* str(get(row, logical)).strip(), or the KeyError
Text(fieldnames, keys, row, logical) ==
    TextAt(fieldnames, keys, row, logical, Resolve(keys, logical))

FloatOr(logical, text, f) ==
    IF f = None THEN [exc |-> ValueError(logical, text)] ELSE [exc |-> None, val |-> f]

NumberOf(logical, t) ==
    IF t.exc # None THEN t
    ELSE FloatOr(logical, t.val, float(Replace(t.val, <<",">>, <<".">>)))

\* float(str(get(row, logical)).strip().replace(",", ".")), or the exception
Number(fieldnames, keys, row, logical) ==
    NumberOf(logical, Text(fieldnames, keys, row, logical))

\* the EntryRow of the four fields, or the first exception in the order they
\* are read
Fields(label, innen, cetta_max, cetta_pm) ==
    IF label.exc # None THEN label
    ELSE IF innen.exc # None THEN innen
    ELSE IF cetta_max.exc # None THEN cetta_max
    ELSE IF cetta_pm.exc # None THEN cetta_pm
    ELSE [exc |-> None,
          val |-> EntryRow(label.val, innen.val, cetta_max.val, cetta_pm.val)]

\* The body of the try: the EntryRow of a line, or the first exception raised.
ParseRow(fieldnames, keys, row) ==
    Fields(Text(fieldnames, keys, row, Aussen),
           Number(fieldnames, keys, row, Innen),
           Number(fieldnames, keys, row, CettaMax),
           Number(fieldnames, keys, row, CettaProMeter))

\* a faulty variant: only a failed number conversion is caught
CaughtValueError(exc) == exc.type = "ValueError"

\* except Exception
Caught(exc) == exc.type \in {"KeyError", "ValueError"}

Warned(acc, n, exc, data) ==
    [acc EXCEPT !.warns = Append(@, [line |-> n + 1, exc |-> exc, data |-> data])]

RECURSIVE ReadRows(_, _, _, _, _)

\* a faulty variant: the first line that fails ends the loop
AfterRowBreak(fieldnames, keys, lines, n, acc, out) ==
    IF out.exc = None
    THEN ReadRows(fieldnames, keys, lines, n + 1,
                  [acc EXCEPT !.rows = Append(@, out.val)])
    ELSE Warned(acc, n, out.exc, lines[n])

\* The end of one iteration: the line is appended, or reported with its number
\* and skipped; an exception that is not caught leaves load_type_rows.
AfterRow(fieldnames, keys, lines, n, acc, out) ==
    IF out.exc = None
    THEN ReadRows(fieldnames, keys, lines, n + 1,
                  [acc EXCEPT !.rows = Append(@, out.val)])
    ELSE IF Caught(out.exc)
    THEN ReadRows(fieldnames, keys, lines, n + 1, Warned(acc, n, out.exc, lines[n]))
    ELSE [raised |-> TRUE, exc |-> out.exc, warns |-> acc.warns]

\* "for i, row in enumerate(reader, start=2)", from the n-th line on
ReadRows(fieldnames, keys, lines, n, acc) ==
    IF n > Len(lines) THEN acc
    ELSE AfterRow(fieldnames, keys, lines, n, acc,
                  ParseRow(fieldnames, keys, lines[n]))

NoRows == [raised |-> FALSE, rows |-> <<>>, warns |-> <<>>]

\* the lines csv.DictReader yields
DictLines(file) == SelectSeq(file.rows, LAMBDA r : r # <<>>)

ReadFile(fs, path) ==
    IF path \notin DOMAIN fs THEN NoRows
    ELSE ReadRows(fs[path].header, header_map(fs[path].header), DictLines(fs[path]),
                  1, NoRows)

load_type_rows(fs, type_name) == ReadFile(fs, type_name \o CsvExt)

(***************************************************************************)
(* list_types                                                              *)
(***************************************************************************)
\* ord(c), for the characters of the modelled file names
Ord(c) ==
    IF \E i \in 1..Len(UpperCase) : UpperCase[i] = c
    THEN 64 + (CHOOSE i \in 1..Len(UpperCase) : UpperCase[i] = c)
    ELSE IF \E i \in 1..Len(LowerCase) : LowerCase[i] = c
    THEN 96 + (CHOOSE i \in 1..Len(LowerCase) : LowerCase[i] = c)
    ELSE IF c \in Digit THEN 48 + DigitVal(c)
    ELSE IF c = "." THEN 46
    ELSE 32

\* a < b, on str
RECURSIVE StrLess(_, _)
StrLess(a, b) ==
    IF b = <<>> THEN FALSE
    ELSE IF a = <<>> THEN TRUE
    ELSE IF Head(a) = Head(b) THEN StrLess(Tail(a), Tail(b))
    ELSE Ord(Head(a)) < Ord(Head(b))

EndsWith(s, suffix) ==
    Len(suffix) <= Len(s) /\ SubSeq(s, Len(s) - Len(suffix) + 1, Len(s)) = suffix

\* os.path.splitext(fn)[0], for fn that ends in an extension of four characters:
\* a name that is nothing but the extension has none
RootOr(fn, root) == IF \A i \in 1..Len(root) : root[i] = "." THEN fn ELSE root

SplitextRoot(fn) == RootOr(fn, SubSeq(fn, 1, Len(fn) - Len(CsvExt)))

\* sorted(names)
Least(S) == CHOOSE x \in S : \A y \in S : ~StrLess(y, x)

RECURSIVE SortedSeq(_)
SortedSeq(S) == IF S = {} THEN <<>> ELSE <<Least(S)>> \o SortedSeq(S \ {Least(S)})

list_types(fs) ==
    SortedSeq({SplitextRoot(fn) : fn \in {f \in DOMAIN fs : EndsWith(Lower(f), CsvExt)}})

(***************************************************************************)
(* App: construction, the widgets' variables, on_calculate.                *)
(***************************************************************************)
\* "{req:.3f}": the thousandths of a float, ties to even (of the decimal)
RoundQuotient(m, p) ==
    IF 2 * (m % p) > p \/ (2 * (m % p) = p /\ (m \div p) % 2 = 1)
    THEN (m \div p) + 1
    ELSE m \div p

Thousandths(a) ==
    IF a.k <= 3 THEN a.m * Pow10(3 - a.k)
    ELSE IF a.k - 3 > 9 THEN 0
    ELSE RoundQuotient(a.m, Pow10(a.k - 3))

SummaryOk(r, req) ==
    [kind |-> "Auswahl", label |-> r.label, cetta |-> Thousandths(req)]

DetailOk(r) ==
    [kind |-> "Gefundener Datensatz", label |-> r.label, innen |-> r.innen,
     cetta_max |-> r.cetta_max, cetta_pro_meter |-> r.cetta_pro_meter]

SummaryNone(res) ==
    [kind |-> "message", message |-> res.message,
     cetta |-> Thousandths(res.required_cetta)]

DetailNone(r) ==
    [kind |-> "Oberste Zeile", label |-> r.label, cetta_max |-> r.cetta_max,
     cetta_pro_meter |-> r.cetta_pro_meter]

\* a faulty variant: only a negative length is refused
LengthRefusedNegative(len) == len = None \/ len.m < 0

\* length_m is None or length_m <= 0
LengthRefused(len) == len = None \/ LE(len, Zero)

Untouched(summary, detail) ==
    [dialog |-> "", calls |-> <<>>, length_m |-> None, rows |-> None,
     result |-> None, summary |-> summary, detail |-> detail]

\* on_calculate from "result = select_best(rows, length_m)" on
Selected(base, len, rs, res) ==
    [base EXCEPT !.calls = <<"parse_length_to_meters", "load_type_rows", "select_best">>,
                 !.length_m = len,
                 !.rows = rs,
                 !.result = res,
                 !.summary = IF res.status = "ok"
                             THEN SummaryOk(res.row, res.required_cetta)
                             ELSE SummaryNone(res),
                 !.detail = IF res.status = "ok" THEN DetailOk(res.row)
                            ELSE DetailNone(res.row)]

\* on_calculate from "rows = load_type_rows(type_name)" on; an exception of
\* load_type_rows leaves the handler
Loaded(base, len, loaded) ==
    IF loaded.raised
    THEN [base EXCEPT !.calls = <<"parse_length_to_meters", "load_type_rows">>,
                      !.length_m = len]
    ELSE IF loaded.rows = <<>>
    THEN [base EXCEPT !.dialog = "Keine Daten gefunden oder Spaltennamen fehlen",
                      !.calls = <<"parse_length_to_meters", "load_type_rows">>,
                      !.length_m = len,
                      !.rows = loaded.rows]
    ELSE Selected(base, len, loaded.rows, select_best(loaded.rows, len))

\* on_calculate from "length_m = parse_length_to_meters(...)" on
Parsed(base, fs, type_name, len) ==
    IF LengthRefused(len)
    THEN [base EXCEPT !.dialog = "Bitte eine gültige Länge eingeben",
                      !.calls = <<"parse_length_to_meters">>,
                      !.length_m = len]
    ELSE Loaded(base, len, load_type_rows(fs, type_name))

Typed(base, fs, type_name, text, u) ==
    IF type_name = <<>>
    THEN [base EXCEPT !.dialog = "Bitte einen Typ auswählen"]
    ELSE Parsed(base, fs, type_name, parse_length_to_meters(text, u))

\* What on_calculate does, from the widgets' variables and the files: the
\* dialog it shows, the functions it calls, its locals and the labels' texts.
Calculate(fs, sel, text, u, summary, detail) ==
    Typed(Untouched(summary, detail), fs, Strip(sel), text, u)

Shown(o) ==
    /\ dialog' = o.dialog
    /\ calls' = o.calls
    /\ length_m' = o.length_m
    /\ rows' = o.rows
    /\ result' = o.result
    /\ lbl_summary' = o.summary
    /\ lbl_detail' = o.detail

\* The button "Berechnen".
on_calculate ==
    /\ UNCHANGED <<db, types, selected_type, length_text, unit, callVars>>
    /\ Shown(Calculate(db, selected_type, length_text, unit, lbl_summary, lbl_detail))

appOut == <<lbl_summary, lbl_detail, dialog, calls, length_m, rows, result>>

\* The read-only combobox of the types: one of App.types is chosen.
SelectType ==
    /\ \E i \in 1..Len(types) : selected_type' = types[i]
    /\ UNCHANGED <<db, types, length_text, unit, appOut, callVars>>

\* texts typed into the length entry
AppTexts ==
    { <<>>, <<"2">>, <<"1", "0">>, <<"0">>, <<"-", "1">>, <<"a", "b", "c">>,
      <<"8", "0", ",", "0", "3", "4">> }

\* The length entry is edited.
EditLength ==
    /\ \E t \in AppTexts : length_text' = t
    /\ UNCHANGED <<db, types, selected_type, unit, appOut, callVars>>

\* The read-only combobox of the units.
SelectUnit ==
    /\ \E u \in {"m", "cm"} : unit' = u
    /\ UNCHANGED <<db, types, selected_type, length_text, appOut, callVars>>

\* A file of DB_DIR is removed while the application runs.
RemoveFile ==
    /\ \E f \in DOMAIN db : db' = [g \in DOMAIN db \ {f} |-> db[g]]
    /\ UNCHANGED <<types, selected_type, length_text, unit, appOut, callVars>>

\* text: the cells of the modelled catalogues
L10x1 == <<"1", "0", "x", "1">>
L10x2 == <<"1", "0", "x", "2">>
L22x1 == <<"2", "2", "x", "1">>
L5x1 == <<"5", "x", "1">>

Header == <<Aussen, Innen, CettaMax, CettaProMeter>>

Line10x1 == <<L10x1, <<"8">>, <<"1", ".", "0">>, <<"0", ".", "5">>>>
Line22x1 == <<L22x1, <<"2", "0">>, <<"3", ".", "0">>, <<"1", ".", "0">>>>

FileSorted == [header |-> Header, rows |-> <<Line10x1, Line22x1>>]
FileUnsorted == [header |-> Header, rows |-> <<Line22x1, Line10x1>>]
FileNoOuter ==
    [header |-> <<<<"o", "u", "t", "e", "r">>, Innen, CettaMax, CettaProMeter>>,
     rows |-> <<Line10x1>>]

NameA == <<"A", ".", "c", "s", "v">>
NameB == <<"B", ".", "c", "s", "v">>
NameTxt == <<"n", ".", "t", "x", "t">>

\* the directories the application is started on
AppDbs ==
    { <<>>,
      [f \in {NameA, NameB} |-> IF f = NameA THEN FileSorted ELSE FileUnsorted],
      [f \in {NameB, NameTxt} |-> IF f = NameB THEN FileNoOuter ELSE FileSorted] }

CallIdle ==
    /\ call = [fn |-> "idle"]
    /\ ret = None
    /\ scan = ScanEntry

\* App.__init__
Init ==
    /\ db \in AppDbs
    /\ types = list_types(db)
    /\ selected_type = IF types # <<>> THEN types[1] ELSE <<>>
    /\ length_text = <<>>
    /\ unit = "m"
    /\ lbl_summary = [kind |-> "dash"]
    /\ lbl_detail = [kind |-> "blank"]
    /\ dialog = ""
    /\ calls = <<>>
    /\ length_m = None
    /\ rows = None
    /\ result = None
    /\ CallIdle

Next == on_calculate \/ SelectType \/ EditLength \/ SelectUnit \/ RemoveFile

Spec == Init /\ [][Next]_vars

(***************************************************************************)
(* Direct calls of the module's functions, with arguments drawn from       *)
(* bounded sets: one call in a behaviour.                                  *)
(***************************************************************************)
\* Catalogue rows offered to select_best: the specification's two example rows,
\* a second row of outer dimension 10, and a row that fits only by the tolerance.
SelectRows ==
    { EntryRow(L10x1, Dec(8, 0), Dec(1, 0), Dec(5, 1)),
      EntryRow(L22x1, Dec(20, 0), Dec(3, 0), Dec(1, 0)),
      EntryRow(L10x2, Dec(6, 0), Dec(2, 0), Dec(5, 1)),
      EntryRow(L5x1, Dec(4, 0), Zero, Dec(1, 12)) }

SelectLengths == {Dec(1, 0), Dec(2, 0), Dec(4, 0), Dec(10, 0)}

SeqsUpTo(S, n) == UNION {[1..k -> S] : k \in 0..n}

Catalogs == SeqsUpTo(SelectRows, MaxRows)

\* select_best is entered
CallSelect ==
    /\ call.fn = "idle"
    /\ \E rs \in Catalogs, len \in SelectLengths :
          call' = [fn |-> "select_best", rows |-> rs, length_m |-> len]
    /\ scan' = ScanEntry
    /\ ret' = None
    /\ UNCHANGED appVars

\* select_best takes a step, and returns at its last one
StepSelect ==
    /\ call.fn = "select_best"
    /\ scan.pc # "return"
    /\ scan' = SelectStep(call.rows, call.length_m, scan)
    /\ ret' = scan'.out
    /\ UNCHANGED <<call>>
    /\ UNCHANGED appVars

\* The characters of the generated length texts, and the texts.
ParseChars == {"1", "5", ",", ".", "-", " ", "a"}

ParseTexts ==
    SeqsUpTo(ParseChars, MaxLen)
        \cup { <<"8", "0", ",", "0", "3", "4">>, <<"-", "1", "5", ".", "5">>,
               <<" ", "1", " ", "5", " ">> }

ParseUnits == {"m", "cm", "mm"}

\* parse_length_to_meters is called
CallParse ==
    /\ call.fn = "idle"
    /\ \E t \in ParseTexts, u \in ParseUnits :
          /\ call' = [fn |-> "parse_length_to_meters", text |-> t, unit |-> u]
          /\ ret' = parse_length_to_meters(t, u)
    /\ UNCHANGED scan
    /\ UNCHANGED appVars

\* The headers and lines of the generated catalogue files.
LoadHeaders ==
    { Header,
      <<AussenAscii, Innen, CettaMax, CettaProMeter>>,
      <<<<" ", "A", "u", "ß", "e", "n", " ">>, <<"I", "n", "n", "e", "n">>,
        <<"C", "e", "t", "t", "a", " ", "M", "a", "x">>, CettaProMeter>>,
      <<<<"A", "U", "S", "S", "E", "N">>, Innen, CettaMax, CettaProMeter>>,
      <<Aussen \o <<"_", "m", "m">>, Innen \o <<"_", "m", "m">>, CettaMax,
        CettaProMeter>>,
      <<AussenAscii \o <<"_", "m", "m">>, Innen \o <<"_", "m", "m">>, CettaMax,
        CettaProMeter>>,
      <<<<"o", "u", "t", "e", "r">>, Innen, CettaMax, CettaProMeter>>,
      <<Aussen, Innen, <<"c", "m", "a", "x">>, CettaProMeter>>,
      <<CettaProMeter, CettaMax, Aussen, Innen>>,
      <<Aussen, Innen, CettaMax, CettaProMeter, CettaMax>>,
      <<>> }

LoadLines ==
    { Line10x1,
      <<L22x1, <<"2", "0">>, <<"3", ",", "0">>, <<" ", "1", ".", "0", " ">>>>,
      <<L10x2, <<"6">>, <<"a", "b", "c">>, <<"0", ".", "5">>>>,
      <<L5x1, <<>>, <<"2">>, <<"1">>>>,
      <<L10x1, <<"8">>, <<"1", ".", "0">>>>,
      <<<<"1">>, <<"2">>, <<"3">>, <<"4">>, <<"5">>>>,
      <<>> }

LoadFiles ==
    {[header |-> h, rows |-> ls] : h \in LoadHeaders, ls \in SeqsUpTo(LoadLines, MaxLines)}

\* load_type_rows is called, on a directory with the file or without it
CallLoad ==
    /\ call.fn = "idle"
    /\ \E fs \in {<<>>} \cup {[n \in {NameA} |-> f] : f \in LoadFiles} :
          /\ call' = [fn |-> "load_type_rows", fs |-> fs, type_name |-> <<"A">>]
          /\ ret' = load_type_rows(fs, <<"A">>)
    /\ UNCHANGED scan
    /\ UNCHANGED appVars

\* The application is not started.
AppIdle ==
    /\ db = <<>>
    /\ types = <<>>
    /\ selected_type = <<>>
    /\ length_text = <<>>
    /\ unit = "m"
    /\ lbl_summary = [kind |-> "dash"]
    /\ lbl_detail = [kind |-> "blank"]
    /\ dialog = ""
    /\ calls = <<>>
    /\ length_m = None
    /\ rows = None
    /\ result = None

InitCalls == AppIdle /\ CallIdle

NextCalls == CallSelect \/ StepSelect \/ CallParse \/ CallLoad

SpecCalls == InitCalls /\ [][NextCalls]_vars

\* select_best runs to its return once entered: it is straight-line code.
SpecCallsFair == SpecCalls /\ WF_vars(StepSelect)

(***************************************************************************)
(* Properties of select_best.                                              *)
(***************************************************************************)
\* The digits a label starts with, as a number: the outer dimension of "22x1" is 22.
RECURSIVE LeadingNumber(_, _)
LeadingNumber(s, acc) ==
    IF s = <<>> \/ Head(s) \notin Digit THEN acc
    ELSE LeadingNumber(Tail(s), 10 * acc + DigitVal(Head(s)))

OuterValue(r) == LeadingNumber(r.label, 0)

\* (outer, inner) of a is at most that of b
KeyLE(a, b) ==
    \/ OuterValue(a) < OuterValue(b)
    \/ OuterValue(a) = OuterValue(b) /\ LE(a.innen, b.innen)

\* ascending by outer dimension, ties by inner
Sorted(rs) == \A i, j \in 1..Len(rs) : i < j => KeyLE(rs[i], rs[j])

\* the record meets its own requirement: maxCapacity + eps >= length * its rate
MeetsOwn(r, len) ==
    LimbsGE(Plus(r.cetta_max, Dec(1, 12)), Limbs(Mul(len, r.cetta_pro_meter)))

Meeting(rs, len) == {i \in 1..Len(rs) : MeetsOwn(rs[i], len)}

Returned == call.fn = "select_best" /\ scan.pc = "return"

IsFit(res) == res.status = "ok" /\ res.row # None
IsNoFit(res) == res.status = "none" /\ res.row # None
IsEmpty(res) == res.status = "none" /\ res.row = None

\* C1: on a catalogue in ascending (outer, inner) order, a Fit result is the
\* earliest record that meets its own requirement: none before it does.
C1_EarliestFit ==
    (Returned /\ Sorted(call.rows) /\ Meeting(call.rows, call.length_m) # {}) =>
        LET first == CHOOSE i \in Meeting(call.rows, call.length_m) :
                         \A j \in Meeting(call.rows, call.length_m) : i <= j
        IN  /\ IsFit(ret)
            /\ ret.row = call.rows[first]
            /\ \A j \in 1..(first - 1) : ~MeetsOwn(call.rows[j], call.length_m)

C1_Witness ==
    /\ Returned
    /\ Sorted(call.rows)
    /\ Cardinality(Meeting(call.rows, call.length_m)) >= 2
    /\ 1 \notin Meeting(call.rows, call.length_m)
    /\ IsFit(ret)
    /\ call.rows[1] # call.rows[2]

\* C2: a Fit result carries length * the returned record's own rate, that record
\* covers it within the tolerance, and a record whose maximum equals its
\* requirement exactly is a fit.
C2_FitRequirement ==
    Returned =>
        /\ IsFit(ret) =>
              /\ ret.required_cetta = Mul(call.length_m, ret.row.cetta_pro_meter)
              /\ MeetsOwn(ret.row, call.length_m)
        /\ (\E i \in 1..Len(call.rows) :
               call.rows[i].cetta_max =
                   Mul(call.length_m, call.rows[i].cetta_pro_meter))
              => IsFit(ret)

C2_Witness ==
    /\ Returned
    /\ IsFit(ret)
    /\ ret.row.cetta_max = ret.required_cetta
    /\ ret.row.cetta_pro_meter # call.rows[1].cetta_pro_meter

\* C3: a NoFit result on a non-empty catalogue refers to the catalogue's first
\* record, carries length * that record's rate, and no record of the catalogue
\* meets its own requirement.
C3_NoFitFallback ==
    (Returned /\ IsNoFit(ret)) =>
        /\ call.rows # <<>>
        /\ ret.row = call.rows[1]
        /\ ret.required_cetta = Mul(call.length_m, call.rows[1].cetta_pro_meter)
        /\ Meeting(call.rows, call.length_m) = {}

C3_Witness ==
    /\ Returned
    /\ IsNoFit(ret)
    /\ Len(call.rows) >= 2
    /\ call.rows[1] # call.rows[Len(call.rows)]

\* C4: select_best, once entered, returns; what it returns is exactly one of
\* Fit, NoFit and Empty, and it is Empty exactly when the catalogue has no record.
C4_OneVariant ==
    /\ [](Returned =>
            /\ Cardinality({v \in {"Fit", "NoFit", "Empty"} :
                   \/ v = "Fit" /\ IsFit(ret)
                   \/ v = "NoFit" /\ IsNoFit(ret)
                   \/ v = "Empty" /\ IsEmpty(ret)}) = 1
            /\ IsEmpty(ret) <=> call.rows = <<>>)
    /\ [](call.fn = "select_best" => <>(scan.pc = "return"))

C4_Witness ==
    /\ Returned
    /\ IsEmpty(ret)

(***************************************************************************)
(* Properties of parse_length_to_meters.                                   *)
(***************************************************************************)
ParseReturned == call.fn = "parse_length_to_meters"

\* the text with each comma turned into a point
RECURSIVE CommaToPoint(_)
CommaToPoint(text) ==
    IF text = <<>> THEN <<>>
    ELSE <<IF Head(text) = "," THEN "." ELSE Head(text)>> \o CommaToPoint(Tail(text))

\* the text without its blanks, a comma read as a point
Cleaned(text) == CommaToPoint(SelectSeq(text, LAMBDA c : c # " "))

Unsign(t) == IF t # <<>> /\ t[1] \in {"+", "-"} THEN Tail(t) ELSE t

\* a decimal numeral: an optional sign, digits, at most one point among them
NumeralOK(t) ==
    /\ Cardinality({i \in 1..Len(Unsign(t)) : Unsign(t)[i] \in Digit}) >= 1
    /\ Cardinality({i \in 1..Len(Unsign(t)) : Unsign(t)[i] = "."}) <= 1
    /\ \A i \in 1..Len(Unsign(t)) : Unsign(t)[i] = "." \/ Unsign(t)[i] \in Digit

DigitsOf(t) == SelectSeq(t, LAMBDA c : c \in Digit)

\* the sum of digit * 10^(its place), over a sequence of digits
RECURSIVE PlaceSum(_)
PlaceSum(d) ==
    IF d = <<>> THEN 0 ELSE DigitVal(Head(d)) * Pow10(Len(d) - 1) + PlaceSum(Tail(d))

\* the numeral's digits as an integer with its sign, and its digits after the point
RefM(t) == IF t[1] = "-" THEN -PlaceSum(DigitsOf(t)) ELSE PlaceSum(DigitsOf(t))
RefK(t) ==
    IF \E i \in 1..Len(t) : t[i] = "."
    THEN Len(t) - (CHOOSE i \in 1..Len(t) : t[i] = ".")
    ELSE 0

ParsedAs(t, u, r) ==
    /\ (u \notin {"m", "cm"} \/ ~NumeralOK(t)) => r = None
    /\ (u = "m" /\ NumeralOK(t)) => r = Dec(RefM(t), RefK(t))
    /\ (u = "cm" /\ NumeralOK(t)) => r = Dec(RefM(t), RefK(t) + 2)

\* C9: parse_length_to_meters yields None for a unit other than "m" and "cm" and
\* for a text that is no number (the empty text too); otherwise the number for
\* "m" and the number / 100 for "cm", a comma read as a point, zero and negative
\* numbers included.
C9_ParseLength ==
    ParseReturned =>
        /\ ParsedAs(Cleaned(call.text), call.unit, ret)
        /\ ret = parse_length_to_meters(CommaToPoint(call.text), call.unit)

C9_Witness ==
    /\ ParseReturned
    /\ call.text = <<"8", "0", ",", "0", "3", "4">>
    /\ call.unit = "cm"
    /\ ret = Dec(80034, 5)

(***************************************************************************)
(* Properties of load_type_rows.                                           *)
(***************************************************************************)
LoadReturned == call.fn = "load_type_rows" /\ NameA \in DOMAIN call.fs

Logicals == {Aussen, Innen, CettaMax, CettaProMeter}

\* the column each logical field resolves to in a header, 0 for none
Columns(header) ==
    <<Resolve(header_map(header), Aussen), Resolve(header_map(header), Innen),
      Resolve(header_map(header), CettaMax),
      Resolve(header_map(header), CettaProMeter)>>

LogicalAt(n) ==
    CASE n = 1 -> Aussen [] n = 2 -> Innen [] n = 3 -> CettaMax [] n = 4 -> CettaProMeter

UnresolvedIn(cols) == {LogicalAt(n) : n \in {m \in 1..4 : cols[m] = 0}}

\* the cell of a line in a column, trimmed
CellOf(line, col) == Strip(CellStr(line, col))

RefNumber(t) == Dec(RefM(t), RefK(t))

WellFormed(cols, line) ==
    \A n \in 2..4 : NumeralOK(CommaToPoint(CellOf(line, cols[n])))

RecordOf(cols, line) ==
    EntryRow(CellOf(line, cols[1]),
             RefNumber(CommaToPoint(CellOf(line, cols[2]))),
             RefNumber(CommaToPoint(CellOf(line, cols[3]))),
             RefNumber(CommaToPoint(CellOf(line, cols[4]))))

\* the records of the well-formed lines, in the order of the file
RECURSIVE WellFormedRecords(_, _)
WellFormedRecords(cols, lines) ==
    IF lines = <<>> THEN <<>>
    ELSE (IF WellFormed(cols, Head(lines)) THEN <<RecordOf(cols, Head(lines))>>
          ELSE <<>>) \o WellFormedRecords(cols, Tail(lines))

HeaderNames(header) == {header[j] : j \in 1..Len(header)}

SkippedAll(file, missing, r) ==
    /\ ~r.raised
    /\ r.rows = <<>>
    /\ Len(r.warns) = Len(SelectSeq(file.rows, LAMBDA l : l # <<>>))
    /\ \A i \in 1..Len(r.warns) :
          /\ r.warns[i].line = i + 1
          /\ r.warns[i].exc.type = "KeyError" =>
                /\ r.warns[i].exc.logical \in missing
                /\ r.warns[i].exc.present = HeaderNames(file.header)

FailsIfMissing(missing, r) == missing # {} => r.raised

SkipsIfMissing(file, missing, r) == missing # {} => SkippedAll(file, missing, r)

KeepsWellFormed(cols, file, r) ==
    (\A n \in 1..4 : cols[n] # 0) =>
        /\ ~r.raised
        /\ r.rows = WellFormedRecords(cols, file.rows)

\* C6: when every logical field resolves, load_type_rows does not fail on a
\* malformed line: what it returns is exactly the records of the well-formed
\* lines, whole, in the order of the file.
C6_MalformedRowsDropped ==
    LoadReturned => KeepsWellFormed(Columns(call.fs[NameA].header), call.fs[NameA], ret)

C6_Witness ==
    /\ LoadReturned
    /\ UnresolvedIn(Columns(call.fs[NameA].header)) = {}
    /\ Len(call.fs[NameA].rows) = 2
    /\ ~WellFormed(Columns(call.fs[NameA].header), call.fs[NameA].rows[1])
    /\ Len(ret.rows) = 1
    /\ Len(ret.warns) = 1

\* the file with "ss" for "ß" in its header
RECURSIVE Ascii(_)
Ascii(header) ==
    IF header = <<>> THEN <<>>
    ELSE <<Replace(Head(header), <<"ß">>, <<"s", "s">>)>> \o Ascii(Tail(header))

Transliterated(file) == [file EXCEPT !.header = Ascii(file.header)]

OuterWithEszett(header, col) == col # 0 /\ Contains(header[col], <<"ß">>)

NativeOuter(header) == OuterWithEszett(header, Resolve(header_map(header), Aussen))

SameCatalogue(a, b) == ~a.raised /\ ~b.raised /\ a.rows = b.rows

\* C10 as stated: a file whose outer-dimension header is spelt with "ss" loads
\* as the file with the native spelling does, a header resolved by the
\* substring fallback included.
C10_TransliterationSame ==
    (LoadReturned /\ NativeOuter(call.fs[NameA].header)) =>
        SameCatalogue(ret,
            load_type_rows([n \in {NameA} |-> Transliterated(call.fs[NameA])], <<"A">>))

(***************************************************************************)
(* Properties of a request.                                                *)
(***************************************************************************)
\* C7 as stated: whatever the order of the lines in the file, the record of a Fit
\* is the smallest in (outer, inner) among the loaded records that meet their
\* own requirement.
C7_SmallestFit ==
    (result # None /\ IsFit(result)) =>
        \A i \in 1..Len(rows) :
            MeetsOwn(rows[i], length_m) => KeyLE(result.row, rows[i])

\* no type is selected, the length text is no number, or the length is not positive
RequestInvalid ==
    \/ \A i \in 1..Len(selected_type) : selected_type[i] = " "
    \/ ~NumeralOK(Cleaned(length_text))
    \/ RefM(Cleaned(length_text)) <= 0
    \/ unit \notin {"m", "cm"}

\* C8: a request without a selected type, with a length text that is no number,
\* or with a length that is zero or negative is refused before the catalogue is
\* loaded: neither load_type_rows nor select_best is called, there is no
\* result, and the labels keep what they showed.
C8_RefusedBeforeLoad ==
    [][(UNCHANGED <<selected_type, length_text, unit>> /\ RequestInvalid
           /\ on_calculate) =>
          /\ \A i \in 1..Len(calls') : calls'[i] \notin {"load_type_rows", "select_best"}
          /\ dialog' # ""
          /\ rows' = None
          /\ result' = None
          /\ lbl_summary' = lbl_summary
          /\ lbl_detail' = lbl_detail]_vars

C8_Witness ==
    /\ dialog = "Bitte eine gültige Länge eingeben"
    /\ length_m = Zero
    /\ lbl_summary.kind = "Auswahl"
    /\ result = None

====
